---- MODULE Spec2Model ----
(***************************************************************************)
(* Dataset preparation of the hardhat-detection tutorial                   *)
(* (lectures/L08_DL_Construction/Hardhat_Detection_tutorial.ipynb):        *)
(* the split cell (seed, makedirs, listdir, shuffle, slice) and the        *)
(* conversion cell (convert_xml_to_yolo, copy_and_convert_files and its    *)
(* three calls).                                                           *)
(*                                                                         *)
(* Three specifications share the definitions:                             *)
(*   Spec       the two cells run in order on a bounded source directory,  *)
(*              optionally followed by one re-run into the same            *)
(*              destination;                                               *)
(*   ConvSpec   convert_xml_to_yolo applied to every annotation record of  *)
(*              a bounded family;                                          *)
(*   SplitSpec  the slicing statements applied to every list length up to  *)
(*              MaxN.                                                      *)
(*                                                                         *)
(* A value printed with the format {:.6f} is modelled by the integer       *)
(* number of millionths it denotes: "0.300000" is 300000.                  *)
(***************************************************************************)
EXTENDS Integers, Sequences, FiniteSets, TLC

VARIABLES
    \* ---- the notebook's execution (Spec, SplitSpec)
    pc,            \* the statement about to run
    rerun,         \* TRUE once the cells are being run a second time
    images_dir,    \* file names of orig_images_dir
    ann_dir,       \* base name -> the annotation files of orig_ann_dir
    dirs,          \* the destination directories that exist
    dest,          \* destination path -> file content
    rng,           \* number of 32-bit words drawn from the generator
    split,         \* index into splits of the makedirs loop / current call
    all_images, total_images,
    train_end, val_end,
    train_imgs, val_imgs, test_imgs,
    idx,           \* position of fname in file_list
    warnings,      \* the warnings printed by the current run
    raised,        \* the exception that ended the run, "none" otherwise
    prev,          \* the subsets computed by the previous run
    \* ---- convert_xml_to_yolo alone (ConvSpec)
    xml_file,      \* the annotation record given to the converter
    conv,          \* its outcome
    cpc            \* "ready" before the call, "returned" after it

vars == << pc, rerun, images_dir, ann_dir, dirs, dest, rng, split, all_images,
           total_images, train_end, val_end, train_imgs, val_imgs, test_imgs,
           idx, warnings, raised, prev, xml_file, conv, cpc >>

runVars == << pc, rerun, images_dir, ann_dir, dirs, dest, rng, split,
              all_images, total_images, train_end, val_end, train_imgs,
              val_imgs, test_imgs, idx, warnings, raised, prev >>

convVars == << xml_file, conv, cpc >>

----------------------------------------------------------------------------
(* Bounds *)

MaxBoxes == 2      \* objects per annotation record in ConvSpec
MaxItems == 6      \* .png files in the source image directory
MaxOdd == 1        \* items whose annotation differs from the plain XML one
MaxDirSeed == 1    \* os.listdir orders tried: hash seeds 0..MaxDirSeed
MaxN == 1000       \* list lengths sliced in SplitSpec

----------------------------------------------------------------------------
(* Small helpers *)

Range(s) == { s[i] : i \in 1..Len(s) }

Abs(x) == IF x < 0 THEN 0 - x ELSE x

\* Python's s[a:b] for 0 <= a, with b clamped to the length (0-based, b excluded)
Slice(s, a, b) ==
    LET hi == IF b > Len(s) THEN Len(s) ELSE b
    IN  IF a >= hi THEN << >> ELSE [i \in 1..(hi - a) |-> s[a + i]]

----------------------------------------------------------------------------
(* The legacy annotation record, as xml.etree presents it.                  *)
(* A numeric element is absent, holds text float() rejects, or a number.    *)

Num(v) == [k |-> "num", v |-> v]
Missing == [k |-> "missing", v |-> 0]
Bad == [k |-> "bad", v |-> 0]

NoElement == "<absent>"

classes == << "helmet", "head" >>

Obj(name, xmin, ymin, xmax, ymax) ==
    [name |-> name, bndbox |-> TRUE,
     xmin |-> xmin, ymin |-> ymin, xmax |-> xmax, ymax |-> ymax]

ObjNoBox(name) ==
    [name |-> name, bndbox |-> FALSE,
     xmin |-> Missing, ymin |-> Missing, xmax |-> Missing, ymax |-> Missing]

Xml(width, height, objects) ==
    [wellformed |-> TRUE, size |-> TRUE, width |-> width, height |-> height,
     objects |-> objects]

XmlNoSize(objects) ==
    [wellformed |-> TRUE, size |-> FALSE, width |-> Missing,
     height |-> Missing, objects |-> objects]

XmlUnparsable ==
    [wellformed |-> FALSE, size |-> FALSE, width |-> Missing,
     height |-> Missing, objects |-> << >>]

----------------------------------------------------------------------------
(* convert_xml_to_yolo *)

\* f"{num/den:.6f}" for den > 0, in millionths: the quotient rounded to the
\* nearest millionth, an exact tie going to the even neighbour.
FormatSix_Floor(num, den) ==
    LET q == (Abs(num) * 1000000) \div den
    IN  IF num < 0 THEN 0 - q ELSE q

FormatSix(num, den) ==
    LET a == Abs(num) * 1000000
        q == a \div den
        r == a % den
        m == IF 2 * r > den THEN q + 1
             ELSE IF 2 * r < den THEN q
             ELSE IF q % 2 = 0 THEN q ELSE q + 1
    IN  IF num < 0 THEN 0 - m ELSE m

\* classes.index(cls): 0-based position of the first occurrence
IndexOf(seq, x) ==
    (CHOOSE i \in 1..Len(seq) :
        seq[i] = x /\ \A j \in 1..(i - 1) : seq[j] # x) - 1

Returned(lines) == [raised |-> "none", at |-> 0, lines |-> lines]

\* an exception leaving the function; at = 0 for the size block, else the
\* 1-based position of the object being read
Raise(exc, at) == [raised |-> exc, at |-> at, lines |-> << >>]

\* float(e.find(tag).text) for the first of the fields that fails, in the
\* order the code reads them; "none" when all are numbers
FirstFailure(fields) ==
    IF \A i \in 1..Len(fields) : fields[i].k = "num" THEN "none"
    ELSE LET i == CHOOSE j \in 1..Len(fields) :
                     /\ fields[j].k # "num"
                     /\ \A h \in 1..(j - 1) : fields[h].k = "num"
         IN  IF fields[i].k = "missing" THEN "AttributeError"
             ELSE "ValueError"

YoloLine_SwapDims(cls_id, o, width, height) ==
    [cls_id |-> cls_id,
     x_center |-> FormatSix(o.xmin.v + o.xmax.v, 2 * width),
     y_center |-> FormatSix(o.ymin.v + o.ymax.v, 2 * width),
     bbox_width |-> FormatSix(o.xmax.v - o.xmin.v, width),
     bbox_height |-> FormatSix(o.ymax.v - o.ymin.v, width)]

\* lines 222-226
YoloLine(cls_id, o, width, height) ==
    [cls_id |-> cls_id,
     x_center |-> FormatSix(o.xmin.v + o.xmax.v, 2 * width),
     y_center |-> FormatSix(o.ymin.v + o.ymax.v, 2 * height),
     bbox_width |-> FormatSix(o.xmax.v - o.xmin.v, width),
     bbox_height |-> FormatSix(o.ymax.v - o.ymin.v, height)]

\* the body of `for obj in root.findall('object')`, from object i on
RECURSIVE ConvertObjects(_, _, _, _, _, _)
ConvertObjects(objs, i, yolo_lines, width, height, cls_list) ==
    IF i > Len(objs) THEN Returned(yolo_lines)
    ELSE
      LET o == objs[i]
          coords == FirstFailure(<< o.xmin, o.ymin, o.xmax, o.ymax >>)
      IN  IF o.name = NoElement THEN Raise("AttributeError", i)
          ELSE IF o.name \notin Range(cls_list)
            THEN ConvertObjects(objs, i + 1, yolo_lines, width, height, cls_list)
          ELSE IF ~o.bndbox THEN Raise("AttributeError", i)
          ELSE IF coords # "none" THEN Raise(coords, i)
          ELSE IF width = 0 \/ height = 0 THEN Raise("ZeroDivisionError", i)
          ELSE ConvertObjects(objs, i + 1,
                   Append(yolo_lines,
                          YoloLine(IndexOf(cls_list, o.name), o, width, height)),
                   width, height, cls_list)

convert_xml_to_yolo_KeepUnknown(xml, cls_list) ==
    IF ~xml.wellformed THEN Raise("ParseError", 0)
    ELSE IF ~xml.size THEN Raise("AttributeError", 0)
    ELSE IF FirstFailure(<< xml.width, xml.height >>) # "none"
      THEN Raise(FirstFailure(<< xml.width, xml.height >>), 0)
    ELSE ConvertObjects(xml.objects, 1, << >>, xml.width.v, xml.height.v,
                        cls_list \o << "person" >>)

convert_xml_to_yolo(xml, cls_list) ==
    IF ~xml.wellformed THEN Raise("ParseError", 0)
    ELSE IF ~xml.size THEN Raise("AttributeError", 0)
    ELSE IF FirstFailure(<< xml.width, xml.height >>) # "none"
      THEN Raise(FirstFailure(<< xml.width, xml.height >>), 0)
    ELSE ConvertObjects(xml.objects, 1, << >>, xml.width.v, xml.height.v,
                        cls_list)

----------------------------------------------------------------------------
(* ConvSpec: the converter applied to a bounded family of records *)

Text(S) == { Num(v) : v \in S }

\* corner pairs <<min, max>>; over width 128, <<0, 2>> falls on a rounding
\* tie and <<3, 8>> on values that six decimals cannot hold
XPairs == { << 10, 50 >>, << 0, 2 >>, << 50, 10 >>, << 3, 8 >> }
YPairs == { << 20, 60 >>, << 1, 2 >> }

Labels == { "helmet", "head", "person" }

GoodObjs ==
    { Obj(n, Num(x[1]), Num(y[1]), Num(x[2]), Num(y[2])) :
        n \in Labels, x \in XPairs, y \in YPairs }

BrokenObjs ==
    { Obj(NoElement, Num(10), Num(20), Num(50), Num(60)),
      ObjNoBox("helmet"), ObjNoBox("person"),
      Obj("helmet", Bad, Num(20), Num(50), Num(60)),
      Obj("person", Bad, Num(20), Num(50), Num(60)),
      Obj("head", Num(10), Num(20), Num(50), Missing) }

Objs == GoodObjs \cup BrokenObjs

\* the records without their objects: every size block ConvSpec tries
Headers ==
    { Xml(w, h, << >>) : w \in Text({0, 100, 128}), h \in Text({0, 200}) }
    \cup { Xml(Missing, Num(200), << >>), Xml(Bad, Num(200), << >>),
           Xml(Num(100), Missing, << >>), Xml(Num(100), Bad, << >>),
           XmlNoSize(<< >>), XmlUnparsable }

\* an unparsable file has no tree, hence no objects
WithObjects(hd, os) ==
    IF hd.wellformed THEN [hd EXCEPT !.objects = os] ELSE hd

\* the notebook is not running: every variable of the run at rest
RunIdle ==
    /\ pc = "idle" /\ rerun = FALSE
    /\ images_dir = {} /\ ann_dir = << >>
    /\ dirs = {} /\ dest = {}
    /\ rng = 0 /\ split = 1
    /\ all_images = << >> /\ total_images = 0
    /\ train_end = 0 /\ val_end = 0
    /\ train_imgs = << >> /\ val_imgs = << >> /\ test_imgs = << >>
    /\ idx = 0 /\ warnings = << >> /\ raised = "none"
    /\ prev = [train |-> << >>, val |-> << >>, test |-> << >>]

ConvIdle ==
    /\ xml_file = XmlUnparsable
    /\ conv = Returned(<< >>)
    /\ cpc = "idle"

ConvInit ==
    /\ RunIdle
    /\ \E hd \in Headers, k \in 0..MaxBoxes :
         \E os \in [1..k -> Objs] : xml_file = WithObjects(hd, os)
    /\ conv = Returned(<< >>)
    /\ cpc = "ready"

Convert ==
    /\ cpc = "ready"
    /\ conv' = convert_xml_to_yolo(xml_file, classes)
    /\ cpc' = "returned"
    /\ UNCHANGED << xml_file, runVars >>

ConvNext == Convert

ConvSpec == ConvInit /\ [][ConvNext]_vars

----------------------------------------------------------------------------
(* The file system *)

splits == << "train", "val", "test" >>

Png(i) == << i, "png" >>
Txt(i) == << i, "txt" >>
Stray == << 0, "jpg" >>

\* os.path.splitext(fname)[0]
base_name(fname) == fname[1]

\* f.endswith('.png')
EndsWithPng_Any(f) == TRUE

EndsWithPng(f) == f[2] = "png"

Dir(s, sub) == << s, sub >>

AllDirs == { Dir(splits[k], sub) : k \in 1..3, sub \in {"images", "labels"} }

\* a destination file: where it is and what it holds
File(s, sub, name, kind, of, lines) ==
    [split |-> s, sub |-> sub, name |-> name,
     kind |-> kind, of |-> of, lines |-> lines]

At(d, s, sub, name) ==
    { e \in d : e.split = s /\ e.sub = sub /\ e.name = name }

Write_Fresh(d, f) ==
    { e \in d : e.split # f.split \/ e.sub # f.sub } \cup { f }

\* writing a file replaces the file of the same name in the same directory
Write(d, f) == (d \ At(d, f.split, f.sub, f.name)) \cup { f }

\* os.makedirs(path, exist_ok=...): the directory set after the call and the
\* exception raised
makedirs(ds, path, exist_ok) ==
    IF path \in ds /\ ~exist_ok
      THEN [dirs |-> ds, raised |-> "FileExistsError"]
      ELSE [dirs |-> ds \cup { path }, raised |-> "none"]

----------------------------------------------------------------------------
(* The source directories *)

PlainXml ==
    Xml(Num(100), Num(200),
        << Obj("helmet", Num(10), Num(20), Num(50), Num(60)) >>)

Ann(hasXml, record, hasTxt) ==
    [xml |-> hasXml, record |-> record, txt |-> hasTxt]

Plain == Ann(TRUE, PlainXml, FALSE)

OddAnns ==
    { Ann(TRUE, Xml(Num(100), Num(200), << >>), FALSE),
      Ann(TRUE, Xml(Num(100), Num(200),
                    << Obj("person", Num(10), Num(20), Num(50), Num(60)) >>),
          FALSE),
      Ann(TRUE, Xml(Num(100), Num(200), << >>), TRUE),
      Ann(TRUE, PlainXml, TRUE),
      Ann(TRUE, XmlNoSize(<< >>), FALSE),
      Ann(TRUE, Xml(Num(0), Num(200),
                    << Obj("helmet", Num(10), Num(20), Num(50), Num(60)) >>),
          FALSE),
      Ann(FALSE, XmlUnparsable, TRUE),
      Ann(FALSE, XmlUnparsable, FALSE) }

\* the annotation directory of n items: those of O hold g, the others Plain
Annotations(n, O, g) == [i \in 1..n |-> IF i \in O THEN g[i] ELSE Plain]

\* os.listdir returns the entries "in arbitrary order": here the order of a
\* hashed directory, by the key (r + 1) * name mod 11, r being the file
\* system's hash seed (r = 0 is the name order)
DirKey(f, r) == ((r + 1) * f[1]) % 11

RECURSIVE listdir(_, _)
listdir(S, r) ==
    IF S = {} THEN << >>
    ELSE LET m == CHOOSE x \in S : \A y \in S : DirKey(x, r) <= DirKey(y, r)
         IN  << m >> \o listdir(S \ { m }, r)

----------------------------------------------------------------------------
(* random.seed(42) and random.shuffle *)

\* The top four bits of the successive 32-bit words the Mersenne Twister
\* yields after random.seed(42).  getrandbits(k), k <= 4, is the top k bits
\* of the next word.
MT_top4 ==
    << 10, 1, 0, 11, 4, 3, 3, 2, 11, 1, 10, 11, 14, 8, 1, 9,
       6, 0, 0, 1, 3, 3, 8, 9, 0, 8, 3, 11, 10, 11, 8, 6,
       3, 7, 9, 4, 12, 13, 0, 12, 12, 2, 11, 6, 5, 4, 2, 3 >>

getrandbits(k, p) == MT_top4[p + 1] \div (2 ^ (4 - k))

\* n.bit_length() for 1 <= n <= 15
bit_length(n) ==
    IF n < 2 THEN 1 ELSE IF n < 4 THEN 2 ELSE IF n < 8 THEN 3 ELSE 4

\* Random._randbelow_with_getrandbits: draw k bits until the draw is below n
RECURSIVE randbelow(_, _)
randbelow(n, p) ==
    LET r == getrandbits(bit_length(n), p)
    IN  IF r >= n THEN randbelow(n, p + 1) ELSE [r |-> r, rng |-> p + 1]

\* for i in reversed(range(1, len(x))): j = randbelow(i + 1); swap x[i], x[j]
RECURSIVE ShuffleFrom(_, _, _)
ShuffleFrom(x, i, p) ==
    IF i < 1 THEN [x |-> x, rng |-> p]
    ELSE LET d == randbelow(i + 1, p)
             j == d.r
         IN  ShuffleFrom([x EXCEPT ![i + 1] = x[j + 1], ![j + 1] = x[i + 1]],
                         i - 1, d.rng)

shuffle(x, p) == ShuffleFrom(x, Len(x) - 1, p)

----------------------------------------------------------------------------
(* The split cell *)

\* int(0.8 * n) and int(0.9 * n), as int(tenths/10 * n).  The binary64
\* nearest to 0.8 and to 0.9 lies above the decimal by less than 2^-53 of
\* it, so for every n below 2^31 the product truncates to the same integer
\* as the exact 8n/10 and 9n/10.
IntFrac_Ceil(tenths, n) == (tenths * n + 9) \div 10

IntFrac_Nearest(tenths, n) == (tenths * n + 5) \div 10

IntFrac(tenths, n) == (tenths * n) \div 10

Subsets_Gap(imgs, te, ve) ==
    [train |-> Slice(imgs, 0, te),
     val |-> Slice(imgs, te + 1, ve),
     test |-> Slice(imgs, ve, Len(imgs))]

\* all_images[:train_end], all_images[train_end:val_end], all_images[val_end:]
Subsets(imgs, te, ve) ==
    [train |-> Slice(imgs, 0, te),
     val |-> Slice(imgs, te, ve),
     test |-> Slice(imgs, ve, Len(imgs))]

MakeSplitDirs_Strict(ds, s) ==
    LET a == makedirs(ds, Dir(s, "images"), FALSE)
    IN  IF a.raised # "none" THEN a ELSE makedirs(a.dirs, Dir(s, "labels"), FALSE)

\* one iteration of `for split in splits`: the two makedirs calls
MakeSplitDirs(ds, s) ==
    LET a == makedirs(ds, Dir(s, "images"), TRUE)
    IN  IF a.raised # "none" THEN a ELSE makedirs(a.dirs, Dir(s, "labels"), TRUE)

Init ==
    /\ \E n \in 0..MaxItems :
         /\ images_dir = { Png(i) : i \in 1..n } \cup { Stray }
         /\ \E O \in { S \in SUBSET (1..n) : Cardinality(S) <= MaxOdd } :
              \E g \in [O -> OddAnns] : ann_dir = Annotations(n, O, g)
    /\ pc = "seed" /\ rerun = FALSE
    /\ dirs = {} /\ dest = {}
    /\ rng = 0 /\ split = 1
    /\ all_images = << >> /\ total_images = 0
    /\ train_end = 0 /\ val_end = 0
    /\ train_imgs = << >> /\ val_imgs = << >> /\ test_imgs = << >>
    /\ idx = 0 /\ warnings = << >> /\ raised = "none"
    /\ prev = [train |-> << >>, val |-> << >>, test |-> << >>]
    /\ ConvIdle

SeedRandom ==
    /\ pc = "seed"
    /\ rng' = 0
    /\ split' = 1
    /\ pc' = "makedirs"
    /\ UNCHANGED << rerun, images_dir, ann_dir, dirs, dest, all_images,
                    total_images, train_end, val_end, train_imgs, val_imgs,
                    test_imgs, idx, warnings, raised, prev, convVars >>

MakeDirs ==
    /\ pc = "makedirs"
    /\ LET m == MakeSplitDirs(dirs, splits[split])
       IN  /\ dirs' = m.dirs
           /\ raised' = m.raised
           /\ IF m.raised # "none" THEN pc' = "crashed" /\ split' = split
              ELSE IF split < 3 THEN pc' = pc /\ split' = split + 1
              ELSE pc' = "listdir" /\ split' = split
    /\ UNCHANGED << rerun, images_dir, ann_dir, dest, rng, all_images,
                    total_images, train_end, val_end, train_imgs, val_imgs,
                    test_imgs, idx, warnings, prev, convVars >>

ListImages ==
    /\ pc = "listdir"
    /\ \E r \in 0..MaxDirSeed :
         all_images' = SelectSeq(listdir(images_dir, r), EndsWithPng)
    /\ total_images' = Len(all_images')
    /\ pc' = "shuffle"
    /\ UNCHANGED << rerun, images_dir, ann_dir, dirs, dest, rng, split,
                    train_end, val_end, train_imgs, val_imgs, test_imgs, idx,
                    warnings, raised, prev, convVars >>

Shuffle ==
    /\ pc = "shuffle"
    /\ LET s == shuffle(all_images, rng)
       IN  all_images' = s.x /\ rng' = s.rng
    /\ pc' = "slice"
    /\ UNCHANGED << rerun, images_dir, ann_dir, dirs, dest, split,
                    total_images, train_end, val_end, train_imgs, val_imgs,
                    test_imgs, idx, warnings, raised, prev, convVars >>

SliceImages ==
    /\ pc = "slice"
    /\ train_end' = IntFrac(8, total_images)
    /\ val_end' = IntFrac(9, total_images)
    /\ LET s == Subsets(all_images, train_end', val_end')
       IN  train_imgs' = s.train /\ val_imgs' = s.val /\ test_imgs' = s.test
    /\ split' = 1
    /\ pc' = "call"
    /\ UNCHANGED << rerun, images_dir, ann_dir, dirs, dest, rng, all_images,
                    total_images, idx, warnings, raised, prev, convVars >>

----------------------------------------------------------------------------
(* The conversion cell: copy_and_convert_files and its three calls *)

file_list_TestFirst ==
    IF split = 1 THEN train_imgs ELSE IF split = 2 THEN test_imgs ELSE val_imgs

\* the file_list argument of the current call
file_list ==
    IF split = 1 THEN train_imgs ELSE IF split = 2 THEN val_imgs ELSE test_imgs

dest_split == splits[split]

fname == file_list[idx]

ImageFile(s, f) == File(s, "images", f, "image", base_name(f), << >>)

LabelFile(s, b, yolo_lines) == File(s, "labels", Txt(b), "yolo", b, yolo_lines)

TxtCopy(s, b) == File(s, "labels", Txt(b), "txt", b, << >>)

WriteLabel_Always(d, s, b, yolo_lines) == Write(d, LabelFile(s, b, yolo_lines))

\* if yolo_lines: open(dest_lbl/base_name.txt, 'w').write("\n".join(yolo_lines))
WriteLabel(d, s, b, yolo_lines) ==
    IF yolo_lines # << >> THEN Write(d, LabelFile(s, b, yolo_lines)) ELSE d

CallCopy ==
    /\ pc = "call"
    /\ idx' = 1
    /\ pc' = "loop"
    /\ UNCHANGED << rerun, images_dir, ann_dir, dirs, dest, rng, split,
                    all_images, total_images, train_end, val_end, train_imgs,
                    val_imgs, test_imgs, warnings, raised, prev, convVars >>

\* shutil.copy(os.path.join(src_images, fname), dest_img)
CopyImage ==
    /\ pc = "loop"
    /\ idx <= Len(file_list)
    /\ dest' = Write(dest, ImageFile(dest_split, fname))
    /\ pc' = "annotate"
    /\ UNCHANGED << rerun, images_dir, ann_dir, dirs, rng, split, all_images,
                    total_images, train_end, val_end, train_imgs, val_imgs,
                    test_imgs, idx, warnings, raised, prev, convVars >>

\* if os.path.exists(xml_file): convert, and write the lines if there are any
ConvertXml ==
    /\ pc = "annotate"
    /\ ann_dir[base_name(fname)].xml
    /\ LET r == convert_xml_to_yolo(ann_dir[base_name(fname)].record, classes)
       IN  IF r.raised # "none"
             THEN /\ pc' = "crashed"
                  /\ raised' = r.raised
                  /\ UNCHANGED << dest, idx >>
             ELSE /\ dest' = WriteLabel(dest, dest_split, base_name(fname),
                                        r.lines)
                  /\ idx' = idx + 1
                  /\ pc' = "loop"
                  /\ UNCHANGED raised
    /\ UNCHANGED << rerun, images_dir, ann_dir, dirs, rng, split, all_images,
                    total_images, train_end, val_end, train_imgs, val_imgs,
                    test_imgs, warnings, prev, convVars >>

CopyTxt_Regardless ==
    /\ pc = "annotate"
    /\ ann_dir[base_name(fname)].txt
    /\ dest' = Write(dest, TxtCopy(dest_split, base_name(fname)))
    /\ idx' = idx + 1
    /\ pc' = "loop"
    /\ UNCHANGED << rerun, images_dir, ann_dir, dirs, rng, split, all_images,
                    total_images, train_end, val_end, train_imgs, val_imgs,
                    test_imgs, warnings, raised, prev, convVars >>

\* elif os.path.exists(txt_file): shutil.copy(txt_file, dest_lbl)
CopyTxt ==
    /\ pc = "annotate"
    /\ ~ann_dir[base_name(fname)].xml
    /\ ann_dir[base_name(fname)].txt
    /\ dest' = Write(dest, TxtCopy(dest_split, base_name(fname)))
    /\ idx' = idx + 1
    /\ pc' = "loop"
    /\ UNCHANGED << rerun, images_dir, ann_dir, dirs, rng, split, all_images,
                    total_images, train_end, val_end, train_imgs, val_imgs,
                    test_imgs, warnings, raised, prev, convVars >>

WarnMissing_Abort ==
    /\ pc = "annotate"
    /\ ~ann_dir[base_name(fname)].xml
    /\ ~ann_dir[base_name(fname)].txt
    /\ pc' = "crashed"
    /\ raised' = "FileNotFoundError"
    /\ UNCHANGED << rerun, images_dir, ann_dir, dirs, dest, rng, split,
                    all_images, total_images, train_end, val_end, train_imgs,
                    val_imgs, test_imgs, idx, warnings, prev, convVars >>

\* else: print(f"Warning: No annotation found for {fname}")
WarnMissing ==
    /\ pc = "annotate"
    /\ ~ann_dir[base_name(fname)].xml
    /\ ~ann_dir[base_name(fname)].txt
    /\ warnings' = Append(warnings, fname)
    /\ idx' = idx + 1
    /\ pc' = "loop"
    /\ UNCHANGED << rerun, images_dir, ann_dir, dirs, dest, rng, split,
                    all_images, total_images, train_end, val_end, train_imgs,
                    val_imgs, test_imgs, raised, prev, convVars >>

\* file_list is exhausted: the call returns and the next call, if any, follows
Return ==
    /\ pc = "loop"
    /\ idx > Len(file_list)
    /\ IF split < 3 THEN split' = split + 1 /\ pc' = "call"
       ELSE split' = split /\ pc' = "done"
    /\ UNCHANGED << rerun, images_dir, ann_dir, dirs, dest, rng, all_images,
                    total_images, train_end, val_end, train_imgs, val_imgs,
                    test_imgs, idx, warnings, raised, prev, convVars >>

\* the two cells are run again in the same session, on the same directories
Rerun ==
    /\ pc \in { "done", "crashed" }
    /\ ~rerun
    /\ rerun' = TRUE
    /\ prev' = [train |-> train_imgs, val |-> val_imgs, test |-> test_imgs]
    /\ warnings' = << >>
    /\ raised' = "none"
    /\ pc' = "seed"
    /\ UNCHANGED << images_dir, ann_dir, dirs, dest, rng, split, all_images,
                    total_images, train_end, val_end, train_imgs, val_imgs,
                    test_imgs, idx, convVars >>

Next ==
    \/ SeedRandom
    \/ MakeDirs
    \/ ListImages
    \/ Shuffle
    \/ SliceImages
    \/ CallCopy
    \/ CopyImage
    \/ ConvertXml
    \/ CopyTxt
    \/ WarnMissing
    \/ Return
    \/ Rerun

Spec == Init /\ [][Next]_vars

----------------------------------------------------------------------------
(* SplitSpec: the slicing statements on a list of every length up to MaxN *)

SplitInit ==
    /\ \E n \in 0..MaxN :
         /\ all_images = [i \in 1..n |-> Png(i)]
         /\ total_images = n
    /\ pc = "slice" /\ rerun = FALSE
    /\ images_dir = {} /\ ann_dir = << >>
    /\ dirs = AllDirs /\ dest = {}
    /\ rng = 0 /\ split = 1
    /\ train_end = 0 /\ val_end = 0
    /\ train_imgs = << >> /\ val_imgs = << >> /\ test_imgs = << >>
    /\ idx = 0 /\ warnings = << >> /\ raised = "none"
    /\ prev = [train |-> << >>, val |-> << >>, test |-> << >>]
    /\ ConvIdle

SplitNext == SliceImages

SplitSpec == SplitInit /\ [][SplitNext]_vars

----------------------------------------------------------------------------
(* Properties *)

\* the subsets of the current run have been computed
Sliced == pc \in { "call", "loop", "annotate", "done" }

\* the files of the source image directory whose name ends in '.png'
Enumerated == { f \in images_dir : f[2] = "png" }

InVocabulary(o) == o.name \in { classes[k] : k \in 1..Len(classes) }

\* v, in millionths, is num/den rounded to six decimals
NearSix(v, num, den) == 2 * Abs(v * den - 1000000 * num) <= den

\* C1: once the subsets are sliced, train_imgs, val_imgs and test_imgs are
\* pairwise disjoint, their union is the set of enumerated .png names, their
\* lengths add up to the number of names, and their concatenation is the
\* shuffled all_images, a permutation of the enumeration.
C1_SubsetsPartition ==
    Sliced =>
      /\ Range(train_imgs) \cap Range(val_imgs) = {}
      /\ Range(train_imgs) \cap Range(test_imgs) = {}
      /\ Range(val_imgs) \cap Range(test_imgs) = {}
      /\ Range(train_imgs) \cup Range(val_imgs) \cup Range(test_imgs)
           = Enumerated
      /\ Len(train_imgs) + Len(val_imgs) + Len(test_imgs)
           = Cardinality(Enumerated)
      /\ train_imgs \o val_imgs \o test_imgs = all_images
      /\ Len(all_images) = Cardinality(Enumerated)
      /\ Range(all_images) = Enumerated

\* a finished run over six images: all three subsets are non-empty and the
\* shuffle has moved the first name
C1_Witness ==
    /\ pc = "done"
    /\ Cardinality(Enumerated) = 6
    /\ train_imgs # << >> /\ val_imgs # << >> /\ test_imgs # << >>
    /\ train_imgs[1] # Png(1)

\* C2: for every item count N, train has floor(0.8 N) items, validation has
\* floor(0.9 N) - floor(0.8 N) items and test the remaining N - floor(0.9 N);
\* 1000 items give 800/100/100 and 7 items give 5/1/1.
C2_SubsetSizes ==
    pc = "call" =>
      LET N == total_images
          t == Len(train_imgs)
          v == Len(val_imgs)
      IN  /\ 10 * t <= 8 * N /\ 8 * N < 10 * (t + 1)
          /\ 10 * (t + v) <= 9 * N /\ 9 * N < 10 * (t + v + 1)
          /\ Len(test_imgs) = N - (t + v)
          /\ N = 1000 => t = 800 /\ v = 100 /\ Len(test_imgs) = 100
          /\ N = 7 => t = 5 /\ v = 1 /\ Len(test_imgs) = 1

C2_Witness ==
    /\ pc = "call"
    /\ total_images = 1000
    /\ Len(train_imgs) = 800 /\ Len(val_imgs) = 100 /\ Len(test_imgs) = 100

\* C3: a second run on the same source directory with the same seed computes
\* the same three subsets, in the same order, as the first run.
C3_SameSeedSameSubsets ==
    (rerun /\ Sliced) =>
      /\ train_imgs = prev.train
      /\ val_imgs = prev.val
      /\ test_imgs = prev.test

\* the objects of the record whose label is in the vocabulary, in order
Kept(xml) == SelectSeq(xml.objects, InVocabulary)

ScenarioXml ==
    Xml(Num(100), Num(200),
        << Obj("helmet", Num(10), Num(20), Num(50), Num(60)) >>)

ScenarioLine ==
    [cls_id |-> 0, x_center |-> 300000, y_center |-> 200000,
     bbox_width |-> 400000, bbox_height |-> 200000]

\* C4: every line the converter returns is, for its box, the position of the
\* label in the vocabulary followed by ((xmin+xmax)/2)/W, ((ymin+ymax)/2)/H,
\* (xmax-xmin)/W and (ymax-ymin)/H, each rounded to six decimals; the 100x200
\* image with the box (helmet, 10, 20, 50, 60) gives
\* "0 0.300000 0.200000 0.400000 0.200000".
C4_LineValues ==
    (cpc = "returned" /\ conv.raised = "none") =>
      LET boxes == Kept(xml_file)
          W == xml_file.width.v
          H == xml_file.height.v
      IN  /\ Len(conv.lines) = Len(boxes)
          /\ \A k \in 1..Len(conv.lines) :
               LET l == conv.lines[k]
                   o == boxes[k]
               IN  /\ W > 0 /\ H > 0
                   /\ l.cls_id \in 0..(Len(classes) - 1)
                   /\ classes[l.cls_id + 1] = o.name
                   /\ NearSix(l.x_center, o.xmin.v + o.xmax.v, 2 * W)
                   /\ NearSix(l.y_center, o.ymin.v + o.ymax.v, 2 * H)
                   /\ NearSix(l.bbox_width, o.xmax.v - o.xmin.v, W)
                   /\ NearSix(l.bbox_height, o.ymax.v - o.ymin.v, H)
          /\ xml_file = ScenarioXml => conv.lines = << ScenarioLine >>

C4_Witness ==
    /\ cpc = "returned"
    /\ xml_file = ScenarioXml
    /\ conv = Returned(<< ScenarioLine >>)

\* C5: a box whose label is not in the vocabulary gives no line and is never
\* the object at which the conversion fails; a conversion that returns gives
\* one line per in-vocabulary box, in the order of the boxes, each with a
\* class_id in 0..len(classes)-1.
C5_UnknownClassDropped ==
    cpc = "returned" =>
      /\ conv.raised = "none" =>
           /\ Len(conv.lines) = Len(Kept(xml_file))
           /\ \A k \in 1..Len(conv.lines) :
                /\ conv.lines[k].cls_id \in 0..(Len(classes) - 1)
                /\ k <= Len(Kept(xml_file)) =>
                     /\ classes[conv.lines[k].cls_id + 1]
                          = Kept(xml_file)[k].name
                     /\ NearSix(conv.lines[k].bbox_width,
                                Kept(xml_file)[k].xmax.v
                                  - Kept(xml_file)[k].xmin.v,
                                xml_file.width.v)
      /\ (conv.raised # "none" /\ conv.at > 0) =>
           \/ xml_file.objects[conv.at].name = NoElement
           \/ InVocabulary(xml_file.objects[conv.at])

\* an out-of-vocabulary box without a bndbox, then a helmet: one line
C5_Witness ==
    /\ cpc = "returned"
    /\ conv.raised = "none"
    /\ Len(xml_file.objects) = 2
    /\ xml_file.objects[1] = ObjNoBox("person")
    /\ InVocabulary(xml_file.objects[2])
    /\ Len(conv.lines) = 1
    /\ conv.lines[1].cls_id = 0

\* the file_list argument of call k
ListOf(k) == IF k = 1 THEN train_imgs ELSE IF k = 2 THEN val_imgs ELSE test_imgs

\* item i of call k has been through both steps of the loop body in this run
Passed(k, i) ==
    CASE pc = "done" -> TRUE
      [] pc = "call" -> k < split
      [] pc \in { "loop", "annotate" } -> k < split \/ (k = split /\ i < idx)
      [] OTHER -> FALSE

HasImage(k, f) == At(dest, splits[k], "images", f) # {}

Labels_Of(b) == { e \in dest : e.sub = "labels" /\ e.name = Txt(b) }

\* the item's XML exists and declares no box with a label of the vocabulary
NoValidBox(b) ==
    /\ ann_dir[b].xml
    /\ \A k \in 1..Len(ann_dir[b].record.objects) :
         ~InVocabulary(ann_dir[b].record.objects[k])

MissingAnnotation(b) == ~ann_dir[b].xml /\ ~ann_dir[b].txt

\* C6: an item whose XML annotation has no box, or only boxes with a label
\* outside the vocabulary, never gets a label file: no labels directory
\* holds <base_name>.txt for it, empty or not.
C6_NoLabelWithoutBoxes ==
    \A b \in DOMAIN ann_dir : NoValidBox(b) => Labels_Of(b) = {}

\* a finished run that placed the image of an item whose only box is
\* out of vocabulary
C6_Witness ==
    /\ pc = "done"
    /\ \E k \in 1..3 : \E i \in 1..Len(ListOf(k)) :
         LET b == base_name(ListOf(k)[i])
         IN  /\ NoValidBox(b)
             /\ ann_dir[b].record.objects # << >>
             /\ HasImage(k, ListOf(k)[i])
             /\ Labels_Of(b) = {}

C7_Step ==
    (pc = "annotate" /\ MissingAnnotation(base_name(fname))) =>
      /\ pc' = "loop" /\ split' = split /\ idx' = idx + 1
      /\ raised' = "none"
      /\ warnings' = Append(warnings, fname)
      /\ dest' = dest

C7_State ==
    \A k \in 1..3 : \A i \in 1..Len(ListOf(k)) :
      Passed(k, i) =>
        /\ HasImage(k, ListOf(k)[i])
        /\ MissingAnnotation(base_name(ListOf(k)[i])) =>
             /\ \E w \in 1..Len(warnings) : warnings[w] = ListOf(k)[i]
             /\ Labels_Of(base_name(ListOf(k)[i])) = {}

\* C7: handling an item that has neither an .xml nor a .txt annotation
\* records a warning naming it, writes nothing, raises nothing and moves on
\* to the next item; every item the loops have passed has its image in its
\* split, and a passed item without annotation is warned about and has no
\* label file.
C7_MissingAnnotationContinues == [][C7_Step /\ C7_State']_vars

\* a finished run whose train list holds, before its last item, an item
\* without annotation: warned about, image placed, no label
C7_Witness ==
    /\ pc = "done"
    /\ raised = "none"
    /\ \E i \in 1..(Len(train_imgs) - 1) :
         /\ MissingAnnotation(base_name(train_imgs[i]))
         /\ warnings = << train_imgs[i] >>
         /\ HasImage(1, train_imgs[i])
         /\ Labels_Of(base_name(train_imgs[i])) = {}
    /\ \A i \in 1..Len(test_imgs) : HasImage(3, test_imgs[i])

\* C8: a malformed XML annotation (a missing field, a non-numeric value)
\* never ends the run.
C8_MalformedIsPerItem ==
    ~(pc = "crashed"
      /\ raised \in { "ParseError", "AttributeError", "ValueError" })

\* C9: a record whose declared width or height is zero makes the converter
\* fail, whatever its boxes, with an error that is not a division by zero.
C9_ZeroSizeRejected ==
    (/\ cpc = "returned"
     /\ xml_file.wellformed /\ xml_file.size
     /\ xml_file.width.k = "num" /\ xml_file.height.k = "num"
     /\ (xml_file.width.v = 0 \/ xml_file.height.v = 0))
      => conv.raised \notin { "none", "ZeroDivisionError" }

\* C10: the makedirs loop raises nothing, removes no directory and touches
\* no file, also when the directories already exist; and whenever the copy
\* loop is running or a destination file is written, all six destination
\* directories exist.
C10_DirsBeforeCopies ==
    [][ /\ pc = "makedirs" =>
             /\ raised' = "none" /\ pc' # "crashed"
             /\ dirs \subseteq dirs'
             /\ dest' = dest
        /\ (pc \in { "loop", "annotate" } \/ dest' # dest) =>
             AllDirs \subseteq dirs ]_vars

\* the makedirs loop of a re-run has finished over six existing directories
\* that hold files
C10_Witness ==
    /\ rerun
    /\ pc = "listdir"
    /\ dirs = AllDirs
    /\ dest # {}

\* the destination files a step at the current statement may create or
\* replace: the image of fname, then its label, in the directories of
\* dest_split
Targets ==
    IF pc = "loop" /\ idx <= Len(ListOf(split))
      THEN At(dest, splits[split], "images", ListOf(split)[idx])
    ELSE IF pc = "annotate"
      THEN At(dest, splits[split], "labels", Txt(ListOf(split)[idx][1]))
    ELSE {}

\* C11: no step of a run or of a re-run removes a destination directory, and
\* a destination file disappears or changes only when the step writes the
\* file of that name in that directory; every other file stays as it is.
C11_OnlyNameCollisionsOverwrite ==
    [][ /\ dirs \subseteq dirs'
        /\ \A e \in dest : e \in dest' \/ e \in Targets ]_vars

\* a finished re-run whose listing differed: an image the first run put in a
\* split the re-run did not assign it to is still there
C11_Witness ==
    /\ rerun
    /\ pc = "done"
    /\ \E e \in dest :
         /\ e.kind = "image"
         /\ \E k \in 1..3 :
              /\ splits[k] = e.split
              /\ \A i \in 1..Len(ListOf(k)) : ListOf(k)[i] # e.name

\* C12: decoding a returned line gives back its box: the label is
\* classes[class_id], and x_center*W -/+ bbox_width*W/2 (y_center*H -/+
\* bbox_height*H/2) lies within 0.75e-6 * W (H) of xmin/xmax (ymin/ymax),
\* the error two values rounded to six decimals can carry.
C12_RoundTrip ==
    (cpc = "returned" /\ conv.raised = "none") =>
      \A k \in 1..Len(conv.lines) :
        k <= Len(Kept(xml_file)) =>
          LET l == conv.lines[k]
              o == Kept(xml_file)[k]
              W == xml_file.width.v
              H == xml_file.height.v
              M == 1000000
          IN  /\ l.cls_id + 1 \in 1..Len(classes)
              /\ classes[l.cls_id + 1] = o.name
              /\ 2 * Abs(2 * l.x_center * W - l.bbox_width * W
                           - 2 * M * o.xmin.v) <= 3 * W
              /\ 2 * Abs(2 * l.x_center * W + l.bbox_width * W
                           - 2 * M * o.xmax.v) <= 3 * W
              /\ 2 * Abs(2 * l.y_center * H - l.bbox_height * H
                           - 2 * M * o.ymin.v) <= 3 * H
              /\ 2 * Abs(2 * l.y_center * H + l.bbox_height * H
                           - 2 * M * o.ymax.v) <= 3 * H

\* a 128-wide image and the box 3..8: 11/256 and 5/128 are both rounded
C12_Witness ==
    /\ cpc = "returned"
    /\ conv.raised = "none"
    /\ xml_file.width = Num(128)
    /\ Len(conv.lines) = 1
    /\ Kept(xml_file)[1].xmin = Num(3) /\ Kept(xml_file)[1].xmax = Num(8)
    /\ conv.lines[1].x_center = 42969
    /\ conv.lines[1].bbox_width = 39062

\* the item's XML exists and declares a box with a label of the vocabulary
HasValidBox(b) == ann_dir[b].xml /\ ~NoValidBox(b)

LabelsIn(k, b) == At(dest, splits[k], "labels", Txt(b))

C13_Step ==
    pc = "annotate" =>
      LET b == ListOf(split)[idx][1]
      IN  /\ ann_dir[b].xml =>
               \A e \in dest' \ dest : e.kind = "yolo" /\ e.lines # << >>
          /\ (ann_dir[b].xml /\ NoValidBox(b)) => dest' = dest
          /\ (~ann_dir[b].xml /\ ann_dir[b].txt) =>
               At(dest', splits[split], "labels", Txt(b))
                 = { TxtCopy(splits[split], b) }

C13_State ==
    \A k \in 1..3 : \A i \in 1..Len(ListOf(k)) :
      Passed(k, i) =>
        LET b == ListOf(k)[i][1]
        IN  /\ LabelsIn(k, b) # {}
                 <=> (HasValidBox(b) \/ (~ann_dir[b].xml /\ ann_dir[b].txt))
            /\ \A e \in LabelsIn(k, b) :
                 IF ann_dir[b].xml THEN e.kind = "yolo" /\ e.lines # << >>
                 ELSE e = TxtCopy(splits[k], b)

\* C13: when <base_name>.xml exists the label step only ever writes converted
\* lines and writes nothing if there are none, whether or not a .txt exists;
\* only without an .xml is an existing .txt copied as it is; so an item the
\* loops have passed has a label file in its split exactly when its .xml has
\* a box of the vocabulary, or it has no .xml and has a .txt.
C13_AnnotationPrecedence == [][C13_Step /\ C13_State']_vars

\* a finished first run with an item that has both an .xml without boxes and
\* a .txt: no label file for it
C13_Witness ==
    /\ ~rerun
    /\ pc = "done"
    /\ \E k \in 1..3 : \E i \in 1..Len(ListOf(k)) :
         LET b == ListOf(k)[i][1]
         IN  /\ ann_dir[b].xml /\ ann_dir[b].txt
             /\ NoValidBox(b)
             /\ HasImage(k, ListOf(k)[i])
             /\ Labels_Of(b) = {}

\* the items in the order the three calls go through them
Order == train_imgs \o val_imgs \o test_imgs

\* the call that handles position p of Order
SplitAt(p) ==
    IF p <= Len(train_imgs) THEN 1
    ELSE IF p <= Len(train_imgs) + Len(val_imgs) THEN 2 ELSE 3

Before(k) ==
    IF k = 1 THEN 0
    ELSE IF k = 2 THEN Len(train_imgs)
    ELSE Len(train_imgs) + Len(val_imgs)

\* the number of items whose loop body has finished in this run
NumPassed ==
    CASE pc = "done" -> Len(Order)
      [] pc = "call" -> Before(split)
      [] pc \in { "loop", "annotate", "crashed" } -> Before(split) + idx - 1
      [] OTHER -> 0

\* the number of items whose image this run has copied
NumPlaced ==
    NumPassed + (IF pc \in { "annotate", "crashed" } THEN 1 ELSE 0)

LabelDue(b) == HasValidBox(b) \/ (~ann_dir[b].xml /\ ann_dir[b].txt)

C14_Step ==
    /\ (pc \in { "call", "loop", "annotate" }
          /\ pc' \in { "call", "loop", "annotate" }) => split' >= split
    /\ (pc \in { "loop", "annotate" } /\ pc' \in { "loop", "annotate" }) =>
         split' = split /\ idx' >= idx
    /\ dest' # dest =>
         \/ /\ pc = "loop"
            /\ idx <= Len(ListOf(split))
            /\ dest' \ dest = { ImageFile(splits[split], ListOf(split)[idx]) }
         \/ /\ pc = "annotate"
            /\ idx <= Len(ListOf(split))
            /\ HasImage(split, ListOf(split)[idx])
            /\ \A e \in dest' \ dest :
                 /\ e.split = splits[split] /\ e.sub = "labels"
                 /\ e.name = Txt(ListOf(split)[idx][1])

C14_State ==
    ~rerun =>
      /\ NumPlaced <= Len(Order)
      /\ \A p \in 1..NumPlaced : HasImage(SplitAt(p), Order[p])
      /\ \A e \in dest :
           \E p \in 1..NumPlaced :
             /\ e.split = splits[SplitAt(p)]
             /\ e.of = Order[p][1]
             /\ e.sub = "images" => e.name = Order[p]
             /\ e.sub = "labels" => e.name = Txt(Order[p][1])
      /\ \A p \in 1..NumPassed :
           LabelDue(Order[p][1]) => LabelsIn(SplitAt(p), Order[p][1]) # {}

\* C14: the calls go train, val, test and each list front to back; a step
\* that changes the destination writes the image of the current item, or,
\* after that image, its label in the same split; so in a run into an empty
\* destination, finished or stopped part-way, the placed images are those of
\* a prefix of train_imgs ++ val_imgs ++ test_imgs, each in its own split,
\* every label sits beside the image of its item, and only the last placed
\* item can lack a label it is due.
C14_FixedOrder == [][C14_Step /\ C14_State']_vars

\* a first run stopped part-way: the item it stopped at has its image
\* placed and no label, earlier items are complete, later ones untouched
C14_Witness ==
    /\ ~rerun
    /\ pc = "crashed"
    /\ NumPlaced >= 2
    /\ NumPlaced < Len(Order)
    /\ HasImage(SplitAt(NumPlaced), Order[NumPlaced])
    /\ Labels_Of(Order[NumPlaced][1]) = {}
    /\ Labels_Of(Order[1][1]) # {}


\* C15: once sliced with train_end = int(0.8 * N) and val_end = int(0.9 * N),
\* the three subsets are all non-empty when N >= 6, the test subset is
\* non-empty when N >= 1, the train subset is empty exactly when N <= 1 and
\* the validation subset is empty exactly when N <= 5.
C15_SmallCollections ==
    Sliced =>
      /\ total_images >= 6 =>
           train_imgs # << >> /\ val_imgs # << >> /\ test_imgs # << >>
      /\ total_images >= 1 => test_imgs # << >>
      /\ train_imgs = << >> <=> total_images <= 1
      /\ val_imgs = << >> <=> total_images <= 5

\* the largest collection that still gets no validation subset
C15_Witness ==
    /\ Sliced
    /\ total_images = 5
    /\ Len(train_imgs) = 4 /\ val_imgs = << >> /\ Len(test_imgs) = 1

====
